---- MODULE Spec2Model ----
(***************************************************************************)
(* Model of planets.py: the body classes (Planet, NonCollidingPlanet,      *)
(* GhostPlanet) and the frame loop of main(): the event handlers of the    *)
(* gesture state machine and the four physics passes of a frame.           *)
(*                                                                         *)
(* Python floats are represented in fixed point: a value v is the integer  *)
(* v * Scale, divisions truncate toward zero.  Radius and mass are Python  *)
(* ints in the program and are plain integers here.  Colours and drawing   *)
(* are not modelled; the QUIT event is not modelled.                       *)
(***************************************************************************)
EXTENDS Integers, Sequences, FiniteSets, TLC

\* ------------------------------------------------------------ constants
WIDTH == 1000
HEIGHT == 1000
GRAVITATIONAL_CONSTANT == 5
MASS_MULTIPLIER == 1
TIME_STEP == 1
MIN_RADIUS == 5
CENTER_THRESHOLD == 10

\* Fixed-point unit: 1/Scale.  With Scale = 100 the 1e-2 added to every
\* gravity distance is one unit and the velocity scale 0.05 is five units.
Scale == 100
Epsilon == 1
VelocityScale == 5

\* CENTER = (WIDTH // 2, HEIGHT // 2), in pixels
CENTER == <<WIDTH \div 2, HEIGHT \div 2>>

\* ------------------------------------------------------------ bounds
\* number of Planet objects constructed in a run
MaxPlanets == 2
\* the same, for the runs that follow three bodies through one collision pass
MaxChain == 3
\* number of frames whose physics passes run
MaxTicks == 1
\* pygame.time.get_ticks() readings stop growing at MaxClock milliseconds
MaxClock == 700
\* a frame's physics runs while every planet is within MaxOffset (fixed point)
\* of CENTER on both axes and no velocity component exceeds MaxSpeed
MaxOffset == 15000
MaxSpeed == 1000000

\* values pygame.mouse.get_pos() returns (pixels)
MousePositions == {<<500, 500>>, <<506, 508>>}
\* milliseconds that pass between two readings of pygame.time.get_ticks()
TimeSteps == {0, 700}

None == 0

VARIABLES
  objects,             \* the Planet objects alive: id -> fields
  planets,             \* main: planets, a list of references (ids)
  largest_planet,      \* main: largest_planet (an id, or None)
  creating_planet,     \* main: creating_planet
  creation_start_time, \* main: creation_start_time
  creation_start_pos,  \* main: creation_start_pos
  setting_velocity,    \* main: setting_velocity
  radius,              \* main: radius (0 while unbound)
  event,               \* main: event, the last event this frame handled
  to_remove,           \* main: to_remove of this frame
  clock,               \* last reading of pygame.time.get_ticks()
  pc,                  \* position in the body of the while loop
  dt,                  \* the dt update_position is called with
  merged,              \* history: <<absorber, absorbed>> of the merges of this frame
  mass_before,         \* history: total mass of planets when the collision pass began
  tick_count,          \* frames completed
  next_id,             \* id of the next object constructed
  limit                \* bound of the run: the objects it may construct

vars == <<objects, planets, largest_planet, creating_planet, creation_start_time,
          creation_start_pos, setting_velocity, radius, event, to_remove, clock,
          pc, dt, merged, mass_before, tick_count, next_id, limit>>

\* what a run is started with
run == <<dt, limit>>

gesture == <<creating_planet, creation_start_time, creation_start_pos,
             setting_velocity, radius>>

\* ------------------------------------------------------------ arithmetic
Abs(n) == IF n < 0 THEN -n ELSE n

Max(a, b) == IF a >= b THEN a ELSE b

\* float division a / b, truncated to the fixed-point grid (toward zero)
TDiv(a, b) ==
  IF (a >= 0) = (b > 0) THEN Abs(a) \div Abs(b) ELSE -(Abs(a) \div Abs(b))

RECURSIVE SqrtBetween(_, _, _)
SqrtBetween(n, lo, hi) ==
  IF lo >= hi THEN lo
  ELSE LET mid == (lo + hi + 1) \div 2
       IN  IF mid * mid <= n THEN SqrtBetween(n, mid, hi)
                             ELSE SqrtBetween(n, lo, mid - 1)

\* math.sqrt truncated to the grid: the largest r with r * r <= n
ISqrt(n) == SqrtBetween(n, 0, 46340)

Range(s) == {s[i] : i \in 1..Len(s)}

\* ------------------------------------------------------------ class Planet
Kinds == {"Planet", "NonCollidingPlanet", "GhostPlanet"}

\* Planet.__init__; x and y arrive in pixels, vx and vy in fixed point
Planet(x, y, r, vx, vy) ==
  [kind |-> "Planet",
   x |-> x * Scale, y |-> y * Scale,
   radius |-> r,
   mass |-> r * MASS_MULTIPLIER,
   vx |-> vx, vy |-> vy,
   ax |-> 0, ay |-> 0,
   is_largest |-> FALSE,
   is_collidable |-> TRUE]

\* NonCollidingPlanet.__init__
NonCollidingPlanet(x, y, r, vx, vy) ==
  [Planet(x, y, r, vx, vy) EXCEPT !.kind = "NonCollidingPlanet",
                                  !.is_collidable = FALSE]

\* GhostPlanet.__init__
GhostPlanet(x, y, r, vx, vy) ==
  [NonCollidingPlanet(x, y, r, vx, vy) EXCEPT !.kind = "GhostPlanet",
                                              !.is_collidable = FALSE]

\* distance = math.sqrt(dx ** 2 + dy ** 2) + 1e-2
GravityDistance(dx, dy) == ISqrt(dx * dx + dy * dy) + Epsilon

\* force = G * self.mass * other.mass / distance ** 2
\* (divided by distance twice, so that no intermediate value leaves 32 bits)
GravityForce(m1, m2, distance) ==
  TDiv(TDiv(GRAVITATIONAL_CONSTANT * m1 * m2 * Scale * Scale, distance) * Scale,
       distance)

\* the lines shared by Planet.apply_gravity and GhostPlanet.apply_gravity:
\* self with the pull toward other added to its acceleration
Pull(self, other) ==
  LET dx == other.x - self.x
      dy == other.y - self.y
      distance == GravityDistance(dx, dy)
      force == GravityForce(self.mass, other.mass, distance)
  IN  [self EXCEPT !.ax = @ + TDiv(force * dx, distance * self.mass),
                   !.ay = @ + TDiv(force * dy, distance * self.mass)]

\* faulty variant: apply_gravity without the is_collidable test
Planet_apply_gravity_Unconditional(self, other) == Pull(self, other)

\* Planet.apply_gravity (inherited by NonCollidingPlanet)
Planet_apply_gravity(self, other) ==
  IF other.is_collidable THEN Pull(self, other) ELSE self

\* GhostPlanet.apply_gravity
GhostPlanet_apply_gravity(self, other) ==
  IF ~other.is_collidable THEN self ELSE Pull(self, other)

\* planet.apply_gravity(other_planet), dispatched on the class of planet
apply_gravity(self, other) ==
  IF self.kind = "GhostPlanet" THEN GhostPlanet_apply_gravity(self, other)
                               ELSE Planet_apply_gravity(self, other)

\* Planet.apply_gravity_to_center
apply_gravity_to_center(self) ==
  IF ~self.is_largest THEN self
  ELSE LET dx == CENTER[1] * Scale - self.x
           dy == CENTER[2] * Scale - self.y
           distance == GravityDistance(dx, dy)
           \* 0.5 * G * mass * mass / distance ** 2
           force == TDiv(GravityForce(self.mass, self.mass, distance), 2)
       IN  IF distance < CENTER_THRESHOLD * Scale THEN self
           ELSE [self EXCEPT !.ax = @ + TDiv(force * dx, distance * self.mass),
                             !.ay = @ + TDiv(force * dy, distance * self.mass)]

\* faulty variant: update_position that steps by TIME_STEP whatever dt is
update_position_FullStep(self, d) ==
  LET vx == self.vx + self.ax * TIME_STEP
      vy == self.vy + self.ay * TIME_STEP
  IN  [self EXCEPT !.vx = vx, !.vy = vy,
                   !.x = @ + vx * TIME_STEP, !.y = @ + vy * TIME_STEP,
                   !.ax = 0, !.ay = 0]

\* Planet.update_position
update_position(self, d) ==
  LET vx == self.vx + self.ax * d
      vy == self.vy + self.ay * d
  IN  [self EXCEPT !.vx = vx, !.vy = vy,
                   !.x = @ + vx * d, !.y = @ + vy * d,
                   !.ax = 0, !.ay = 0]

\* faulty variant: merge that takes the difference of the areas and of the masses
merge_Shrinks(self, other) ==
  LET new_radius == ISqrt(Abs(self.radius * self.radius - other.radius * other.radius))
      new_mass == Abs(self.mass - other.mass)
  IN  [self EXCEPT !.radius = new_radius, !.mass = new_mass]

\* faulty variant: merge that recomputes the mass from the new radius
merge_RecomputesMass(self, other) ==
  LET new_radius == ISqrt(self.radius * self.radius + other.radius * other.radius)
      new_mass == new_radius * MASS_MULTIPLIER
  IN  [self EXCEPT !.radius = new_radius,
                   !.mass = new_mass,
                   !.vx = TDiv(self.vx * new_mass + other.vx * other.mass, new_mass),
                   !.vy = TDiv(self.vy * new_mass + other.vy * other.mass, new_mass)]

\* Planet.merge: self after absorbing other
merge(self, other) ==
  LET new_radius == ISqrt(self.radius * self.radius + other.radius * other.radius)
      new_mass == self.mass + other.mass
  IN  [self EXCEPT !.radius = new_radius,
                   !.mass = new_mass,
                   \* self.mass is already new_mass when the velocities are merged
                   !.vx = TDiv(self.vx * new_mass + other.vx * other.mass, new_mass),
                   !.vy = TDiv(self.vy * new_mass + other.vy * other.mass, new_mass)]

\* the test of Planet.check_collision: distance < self.radius + other.radius,
\* with sqrt(n) < k computed exactly as n < k * k
Overlap(self, other) ==
  LET dx == other.x - self.x
      dy == other.y - self.y
      reach == (self.radius + other.radius) * Scale
  IN  dx * dx + dy * dy < reach * reach

\* planet.check_collision(other_planet), dispatched on the class of planet:
\* the value returned, and self as the call leaves it
check_collision(self, other) ==
  IF self.kind = "Planet"
  THEN IF Overlap(self, other) THEN [hit |-> TRUE, self |-> merge(self, other)]
                               ELSE [hit |-> FALSE, self |-> self]
  ELSE [hit |-> FALSE, self |-> self]

\* ------------------------------------------------------------ main()
\* the state main() starts the loop in; update_position is called with d
InitWith(d, n) ==
  /\ objects = <<>>
  /\ planets = <<>>
  /\ largest_planet = None
  /\ creating_planet = FALSE
  /\ creation_start_time = 0
  /\ creation_start_pos = <<0, 0>>
  /\ setting_velocity = FALSE
  /\ radius = 0
  /\ event = "NONE"
  /\ to_remove = {}
  /\ clock = 0
  /\ pc = "events"
  /\ dt = d
  /\ merged = {}
  /\ mass_before = 0
  /\ tick_count = 0
  /\ next_id = 1
  /\ limit = n

Init == InitWith(TIME_STEP, MaxPlanets)

\* the objects still referenced once the list is ps and the largest is l
Live(objs, ps, l) == [id \in (Range(ps) \cup ({l} \ {None})) |-> objs[id]]

\* objs with the new object o stored under id
Store(objs, id, o) == [i \in DOMAIN objs \cup {id} |-> IF i = id THEN o ELSE objs[i]]

\* a reading of pygame.time.get_ticks(): not before the last one
Readings == {clock + d : d \in TimeSteps} \cap 0..MaxClock

\* faulty variant: the radius without the minimum
GestureRadius_NoMinimum(held) == held \div 100

\* radius = max(MIN_RADIUS, int(creation_duration)), creation_duration the
\* milliseconds held / 100
GestureRadius(held) == Max(MIN_RADIUS, held \div 100)

\* faulty variant: the flag of the old largest planet is left set
UpdateLargest_KeepsOldFlag(objs, largest, new) ==
  IF largest = None \/ objs[new].radius > objs[largest].radius
  THEN [objects |-> [objs EXCEPT ![new].is_largest = TRUE], largest |-> new]
  ELSE [objects |-> objs, largest |-> largest]

\* the update of largest_planet after new_planet (id new) is appended:
\* the objects, and the new value of largest_planet
UpdateLargest(objs, largest, new) ==
  IF largest = None \/ objs[new].radius > objs[largest].radius
  THEN [objects |-> [id \in DOMAIN objs |->
                       IF id = new THEN [objs[id] EXCEPT !.is_largest = TRUE]
                       ELSE IF id = largest THEN [objs[id] EXCEPT !.is_largest = FALSE]
                       ELSE objs[id]],
        largest |-> new]
  ELSE [objects |-> objs, largest |-> largest]

\* event.type == pygame.MOUSEBUTTONDOWN and event.button == 1
MouseButtonDown ==
  /\ pc = "events"
  /\ event' = "MOUSEBUTTONDOWN"
  /\ IF ~creating_planet /\ ~setting_velocity
     THEN /\ \E now \in Readings, pos \in MousePositions :
               /\ clock' = now
               /\ creation_start_time' = now
               /\ creation_start_pos' = pos
          /\ creating_planet' = TRUE
     ELSE UNCHANGED <<clock, creation_start_time, creation_start_pos, creating_planet>>
  /\ UNCHANGED <<objects, planets, largest_planet, setting_velocity, radius,
                 to_remove, pc, run, merged, mass_before, tick_count, next_id>>

\* event.type == pygame.MOUSEBUTTONUP and event.button == 1
MouseButtonUp ==
  /\ pc = "events"
  /\ event' = "MOUSEBUTTONUP"
  /\ IF creating_planet
     THEN /\ \E now \in Readings :
               /\ clock' = now
               /\ radius' = GestureRadius(now - creation_start_time)
          /\ creating_planet' = FALSE
          /\ setting_velocity' = TRUE
          /\ UNCHANGED <<objects, planets, largest_planet, next_id>>
     ELSE IF setting_velocity
     THEN /\ next_id <= limit
          /\ \E velocity_target_pos \in MousePositions :
               LET dx == velocity_target_pos[1] - creation_start_pos[1]
                   dy == velocity_target_pos[2] - creation_start_pos[2]
                   new_planet == Planet(creation_start_pos[1], creation_start_pos[2],
                                        radius, dx * VelocityScale, dy * VelocityScale)
                   upd == UpdateLargest(Store(objects, next_id, new_planet),
                                        largest_planet, next_id)
               IN  /\ planets' = Append(planets, next_id)
                   /\ objects' = upd.objects
                   /\ largest_planet' = upd.largest
          /\ setting_velocity' = FALSE
          /\ next_id' = next_id + 1
          /\ UNCHANGED <<clock, radius, creating_planet>>
     ELSE UNCHANGED <<objects, planets, largest_planet, next_id, clock, radius,
                      creating_planet, setting_velocity>>
  /\ UNCHANGED <<creation_start_time, creation_start_pos, to_remove, pc, run,
                 merged, mass_before, tick_count>>

\* faulty variant: a clear that also abandons the gesture
KeySpace_ToIdle ==
  /\ pc = "events"
  /\ event' = "K_SPACE"
  /\ planets' = <<>>
  /\ objects' = Live(objects, <<>>, largest_planet)
  /\ creating_planet' = FALSE
  /\ setting_velocity' = FALSE
  /\ UNCHANGED <<largest_planet, creation_start_time, creation_start_pos, radius,
                 to_remove, clock, pc, run, merged, mass_before, tick_count, next_id>>

\* event.key == pygame.K_SPACE
KeySpace ==
  /\ pc = "events"
  /\ event' = "K_SPACE"
  /\ planets' = <<>>
  /\ objects' = Live(objects, <<>>, largest_planet)
  /\ UNCHANGED <<largest_planet, creating_planet, creation_start_time,
                 creation_start_pos, setting_velocity, radius, to_remove, clock,
                 pc, run, merged, mass_before, tick_count, next_id>>

\* faulty variant: a spawn taken only in Idle
KeyP_OnlyIdle ==
  /\ pc = "events"
  /\ ~creating_planet /\ ~setting_velocity
  /\ next_id <= limit
  /\ event' = "K_p"
  /\ \E mouse \in MousePositions :
       objects' = Store(objects, next_id,
                        NonCollidingPlanet(mouse[1], mouse[2], MIN_RADIUS, 0, 0))
  /\ planets' = Append(planets, next_id)
  /\ next_id' = next_id + 1
  /\ UNCHANGED <<largest_planet, creating_planet, creation_start_time,
                 creation_start_pos, setting_velocity, radius, to_remove, clock,
                 pc, run, merged, mass_before, tick_count>>

\* event.key == pygame.K_p
KeyP ==
  /\ pc = "events"
  /\ next_id <= limit
  /\ event' = "K_p"
  /\ \E mouse \in MousePositions :
       objects' = Store(objects, next_id,
                        NonCollidingPlanet(mouse[1], mouse[2], MIN_RADIUS, 0, 0))
  /\ planets' = Append(planets, next_id)
  /\ next_id' = next_id + 1
  /\ UNCHANGED <<largest_planet, creating_planet, creation_start_time,
                 creation_start_pos, setting_velocity, radius, to_remove, clock,
                 pc, run, merged, mass_before, tick_count>>

\* event.key == pygame.K_o
KeyO ==
  /\ pc = "events"
  /\ next_id <= limit
  /\ event' = "K_o"
  /\ \E mouse \in MousePositions :
       objects' = Store(objects, next_id,
                        GhostPlanet(mouse[1], mouse[2], MIN_RADIUS, 0, 0))
  /\ planets' = Append(planets, next_id)
  /\ next_id' = next_id + 1
  /\ UNCHANGED <<largest_planet, creating_planet, creation_start_time,
                 creation_start_pos, setting_velocity, radius, to_remove, clock,
                 pc, run, merged, mass_before, tick_count>>

\* ------------------------------------------------------------ the physics of a frame
RECURSIVE SumMass(_, _, _)
\* the total mass of the planets ps[k..]
SumMass(objs, ps, k) ==
  IF k > Len(ps) THEN 0 ELSE objs[ps[k]].mass + SumMass(objs, ps, k + 1)

TotalMass(objs, ps) == SumMass(objs, ps, 1)

\* one iteration of the inner loop: planet ps[i] tested against ps[j]
CollideStep(st, ps, i, j) ==
  LET r == check_collision(st.objects[ps[i]], st.objects[ps[j]])
  IN  IF r.hit
      THEN [objects |-> [st.objects EXCEPT ![ps[i]] = r.self],
            to_remove |-> st.to_remove \cup {ps[j]},
            merged |-> st.merged \cup {<<ps[i], ps[j]>>}]
      ELSE st

RECURSIVE CollideFrom(_, _, _, _)
\* for i, planet in enumerate(planets): for other_planet in planets[i + 1:]
CollideFrom(st, ps, i, j) ==
  IF i > Len(ps) THEN st
  ELSE IF j > Len(ps) THEN CollideFrom(st, ps, i + 1, i + 2)
  ELSE CollideFrom(CollideStep(st, ps, i, j), ps, i, j + 1)

\* the planets the model follows: near the screen and not too fast
InBounds(o) ==
  /\ Abs(o.x - CENTER[1] * Scale) <= MaxOffset
  /\ Abs(o.y - CENTER[2] * Scale) <= MaxOffset
  /\ Abs(o.vx) <= MaxSpeed
  /\ Abs(o.vy) <= MaxSpeed

\* to_remove = set() and the double loop over the pairs
CollisionPass ==
  /\ pc = "events"
  /\ tick_count < MaxTicks
  /\ \A id \in Range(planets) : InBounds(objects[id])
  /\ LET st == CollideFrom([objects |-> objects, to_remove |-> {}, merged |-> {}],
                           planets, 1, 2)
     IN  /\ objects' = st.objects
         /\ to_remove' = st.to_remove
         /\ merged' = st.merged
  /\ mass_before' = TotalMass(objects, planets)
  /\ pc' = "removal"
  /\ UNCHANGED <<planets, largest_planet, gesture, event, clock, run, tick_count,
                 next_id>>

\* the list after planets.remove(planet) for every planet of rem
RemoveAll(ps, rem) == SelectSeq(ps, LAMBDA id : id \notin rem)

\* for planet in to_remove: planets.remove(planet)
Removal ==
  /\ pc = "removal"
  /\ planets' = RemoveAll(planets, to_remove)
  /\ objects' = Live(objects, planets', largest_planet)
  /\ pc' = "force"
  /\ UNCHANGED <<largest_planet, gesture, event, to_remove, clock, run, merged,
                 mass_before, tick_count, next_id>>

RECURSIVE GravityFrom(_, _, _, _, _)
\* for other_planet in planets: if planet != other_planet: planet.apply_gravity(...)
\* from the k-th other on; self is the object of id
GravityFrom(self, id, objs, ps, k) ==
  IF k > Len(ps) THEN self
  ELSE GravityFrom(IF ps[k] # id THEN apply_gravity(self, objs[ps[k]]) ELSE self,
                   id, objs, ps, k + 1)

\* the body of the outer loop of the force pass for the planet id
Forces(id, objs, ps) == apply_gravity_to_center(GravityFrom(objs[id], id, objs, ps, 1))

\* the force pass: accelerations only, positions and masses are read unchanged
ForcePass ==
  /\ pc = "force"
  /\ objects' = [id \in DOMAIN objects |->
                   IF id \in Range(planets) THEN Forces(id, objects, planets)
                                            ELSE objects[id]]
  /\ pc' = "integrate"
  /\ UNCHANGED <<planets, largest_planet, gesture, event, to_remove, clock, run,
                 merged, mass_before, tick_count, next_id>>

\* for planet in planets: planet.update_position(TIME_STEP)
Integrate ==
  /\ pc = "integrate"
  /\ objects' = [id \in DOMAIN objects |->
                   IF id \in Range(planets) THEN update_position(objects[id], dt)
                                            ELSE objects[id]]
  /\ tick_count' = tick_count + 1
  /\ pc' = "events"
  \* the frame ends: its event, its removal set and its history are dropped
  /\ event' = "NONE"
  /\ to_remove' = {}
  /\ merged' = {}
  /\ mass_before' = 0
  /\ UNCHANGED <<planets, largest_planet, gesture, clock, run, next_id>>

Next ==
  \/ MouseButtonDown
  \/ MouseButtonUp
  \/ KeySpace
  \/ KeyP
  \/ KeyO
  \/ CollisionPass
  \/ Removal
  \/ ForcePass
  \/ Integrate

Spec == Init /\ [][Next]_vars

\* the same program run with update_position(0)
InitZero == InitWith(0, MaxPlanets)

SpecZero == InitZero /\ [][Next]_vars

\* the same program followed for MaxChain objects
InitChain == InitWith(TIME_STEP, MaxChain)

SpecChain == InitChain /\ [][Next]_vars

\* ------------------------------------------------------------ the claims
\* the planets of the list
Population == Range(planets)

\* an event handler ran: a step inside the event loop of a frame
EventStep == pc = "events" /\ pc' = "events"

Idle == ~creating_planet /\ ~setting_velocity

\* C1: in every reachable state at most one body of the population has
\* is_largest set.
C1_AtMostOneLargest ==
  Cardinality({id \in Population : objects[id].is_largest}) <= 1

\* two gesture bodies in the list, the flag on the later, larger one: it was
\* taken from the first when the second was created
C1_Witness ==
  /\ Len(planets) = 2
  /\ objects[planets[1]].kind = "Planet"
  /\ objects[planets[2]].kind = "Planet"
  /\ objects[planets[2]].radius > objects[planets[1]].radius
  /\ objects[planets[2]].is_largest
  /\ ~objects[planets[1]].is_largest

\* C2: once the collision pass of a frame has run, no GhostPlanet is the
\* absorbing side of a merge, none was absorbed, none is in to_remove.
C2_GhostNeverCollides ==
  pc = "removal" =>
    /\ \A pr \in merged : /\ objects[pr[1]].kind # "GhostPlanet"
                          /\ objects[pr[2]].kind # "GhostPlanet"
    /\ \A id \in to_remove : objects[id].kind # "GhostPlanet"

\* the acceleration the force pass gives planet id when planet n is not in
\* the list
AccelerationWithout(id, n) ==
  LET o == Forces(id, [objects EXCEPT ![id].ax = 0, ![id].ay = 0],
                  RemoveAll(planets, {n}))
  IN  <<o.ax, o.ay>>

\* a Planet s and a NonCollidingPlanet n of the list, at different positions
StandardAndNonColliding(s, n) ==
  /\ s \in Population /\ n \in Population
  /\ objects[s].kind = "Planet"
  /\ objects[n].kind = "NonCollidingPlanet"
  /\ <<objects[s].x, objects[s].y>> # <<objects[n].x, objects[n].y>>

\* C3 as stated: after the force pass the acceleration of a Planet differs
\* from the one it has without the NonCollidingPlanet.
C3_NonCollidingPulls ==
  pc = "integrate" =>
    \A s \in Population, n \in Population :
      StandardAndNonColliding(s, n) =>
        <<objects[s].ax, objects[s].ay>> # AccelerationWithout(s, n)

\* C3 amended: after the force pass the acceleration of a Planet is the one
\* it has without the NonCollidingPlanet: apply_gravity skips a target that
\* is not collidable, so a NonCollidingPlanet pulls nothing.
C3_NonCollidingPullsNothing ==
  pc = "integrate" =>
    \A s \in Population, n \in Population :
      StandardAndNonColliding(s, n) =>
        <<objects[s].ax, objects[s].ay>> = AccelerationWithout(s, n)

\* the force pass has run on a Planet and a NonCollidingPlanet apart
C3_Witness ==
  /\ pc = "integrate"
  /\ \E s \in Population, n \in Population : StandardAndNonColliding(s, n)

\* C4 as stated: after a clear command the list is empty and the state
\* machine is Idle.
C4_ClearResetsToIdle ==
  event = "K_SPACE" => (planets = <<>> /\ Idle)

\* C4 amended: a clear command empties the list in any interaction state and
\* leaves the gesture as it is; a release that follows it in Aiming still
\* creates the body.
C4_ClearKeepsGesture ==
  [][/\ (EventStep /\ event' = "K_SPACE") =>
          (planets' = <<>> /\ UNCHANGED gesture)
     /\ (EventStep /\ event = "K_SPACE" /\ event' = "MOUSEBUTTONUP"
           /\ setting_velocity) =>
          (Len(planets') = 1 /\ objects'[planets'[1]].kind = "Planet")]_vars

\* a clear was handled in Aiming after a body had been constructed: the list
\* is empty, the gesture is still in Aiming and its release can follow
C4_Witness ==
  /\ pc = "events"
  /\ event = "K_SPACE"
  /\ setting_velocity
  /\ planets = <<>>
  /\ next_id > 1
  /\ next_id <= limit

\* C5: every body of the list has mass > 0 and radius >= MIN_RADIUS.
C5_MassAndRadius ==
  \A id \in Population :
    objects[id].mass > 0 /\ objects[id].radius >= MIN_RADIUS

\* a merge has grown a body of the list
C5_Witness ==
  /\ merged # {}
  /\ \E pr \in merged : pr[1] \in Population /\ objects[pr[1]].radius > MIN_RADIUS

\* C6 as stated: every body of the list has mass = radius * MASS_MULTIPLIER.
C6_MassIsRadius ==
  \A id \in Population : objects[id].mass = objects[id].radius * MASS_MULTIPLIER

\* C6 amended: a body is constructed with mass = radius * MASS_MULTIPLIER;
\* its mass and radius change only when it absorbs another body in the
\* collision pass, which adds the other's mass and does not recompute the
\* mass from the new radius; mass >= radius * MASS_MULTIPLIER always.
C6_MassFromRadiusUntilMerge ==
  [][\A id \in DOMAIN objects' :
       LET new == objects'[id]
       IN  /\ new.mass >= new.radius * MASS_MULTIPLIER
           /\ IF id \notin DOMAIN objects
              THEN new.mass = new.radius * MASS_MULTIPLIER
              ELSE \/ /\ new.mass = objects[id].mass
                      /\ new.radius = objects[id].radius
                   \/ /\ pc = "events" /\ pc' = "removal"
                      /\ \E pr \in merged' :
                           /\ pr[1] = id
                           /\ new.mass >= objects[id].mass + objects[pr[2]].mass
                      /\ new.radius >= objects[id].radius]_vars

\* a body of the list whose mass is no longer its radius
C6_Witness ==
  \E id \in Population : objects[id].mass > objects[id].radius * MASS_MULTIPLIER

\* the planets that are in the list before and after a step and are not
\* being removed by the frame
Surviving == (Range(planets) \cap Range(planets')) \ to_remove'

\* the planets that absorbed another in the collision pass of the frame
Absorbers == {pr[1] : pr \in merged'}

SamePosition(id) ==
  objects'[id].x = objects[id].x /\ objects'[id].y = objects[id].y

SameVelocity(id) ==
  objects'[id].vx = objects[id].vx /\ objects'[id].vy = objects[id].vy

\* a pair the collision pass tests and finds overlapping
SomeOverlap ==
  \E i \in 1..Len(planets), j \in 1..Len(planets) :
    /\ i < j
    /\ objects[planets[i]].kind = "Planet"
    /\ Overlap(objects[planets[i]], objects[planets[j]])

\* C7 as stated: with dt = 0 no pass of a frame changes the position or the
\* velocity of a body that survives the frame.
C7_TickZeroKeepsAll ==
  [][dt = 0 => \A id \in Surviving : SamePosition(id) /\ SameVelocity(id)]_vars

\* C7 amended: with dt = 0 no pass of a frame changes the position of a
\* surviving body, nor the velocity of a surviving body that absorbed
\* nothing in the frame; the collision pass still runs: an overlapping pair
\* is merged and its second body put in to_remove.
C7_TickZeroKeepsUnmerged ==
  [][dt = 0 =>
       /\ \A id \in Surviving :
            /\ SamePosition(id)
            /\ id \notin Absorbers => SameVelocity(id)
       /\ (pc = "events" /\ pc' = "removal" /\ SomeOverlap) =>
            (to_remove' # {} /\ merged' # {})]_vars

\* a frame with dt = 0 has completed and left a moving body that absorbed
\* another
C7_Witness ==
  /\ dt = 0
  /\ pc = "events"
  /\ tick_count >= 1
  /\ \E id \in Population :
       /\ objects[id].mass > objects[id].radius * MASS_MULTIPLIER
       /\ objects[id].vx # 0

\* the radius the gesture gives a hold of held milliseconds: one unit per
\* 100 ms, rounded down, never below MIN_RADIUS
RadiusOfHold(held, r) ==
  /\ r >= MIN_RADIUS
  /\ \/ r = MIN_RADIUS /\ held < 100 * (MIN_RADIUS + 1)
     \/ 100 * r <= held /\ held < 100 * (r + 1)

\* C8: a press in Idle starts Sizing and adds no body; the release moves to
\* Aiming, fixes the radius from the hold and adds no body; the next release
\* moves to Idle and appends exactly one Planet at the press position with
\* that radius; while Sizing or Aiming no step restarts the gesture.
C8_Gesture ==
  [][/\ (Idle /\ creating_planet') =>
          (~setting_velocity' /\ planets' = planets)
     /\ (creating_planet /\ ~creating_planet') =>
          /\ setting_velocity'
          /\ planets' = planets
          /\ RadiusOfHold(clock' - creation_start_time, radius')
     /\ (setting_velocity /\ ~setting_velocity') =>
          /\ Idle'
          /\ Len(planets') = Len(planets) + 1
          /\ SubSeq(planets', 1, Len(planets)) = planets
          /\ LET new == objects'[planets'[Len(planets')]]
             IN  /\ planets'[Len(planets')] \notin DOMAIN objects
                 /\ new.kind = "Planet"
                 /\ new.x = creation_start_pos[1] * Scale
                 /\ new.y = creation_start_pos[2] * Scale
                 /\ new.radius = radius
     /\ ~Idle =>
          /\ creation_start_pos' = creation_start_pos
          /\ creation_start_time' = creation_start_time
          /\ ~(creating_planet' /\ ~creating_planet)
     /\ (setting_velocity /\ setting_velocity') => radius' = radius
     /\ ~(creating_planet' /\ setting_velocity')]_vars

\* a gesture held 700 ms has just emitted its body of radius 7
C8_Witness ==
  /\ event = "MOUSEBUTTONUP"
  /\ Idle
  /\ planets # <<>>
  /\ radius = 7
  /\ LET new == objects[planets[Len(planets)]]
     IN  /\ new.kind = "Planet"
         /\ new.radius = 7
         /\ new.x = creation_start_pos[1] * Scale
         /\ new.y = creation_start_pos[2] * Scale

\* C9 as stated: a spawn-variant command received in Sizing or Aiming adds
\* no body.
C9_SpawnOnlyFromIdle ==
  [][(EventStep /\ event' \in {"K_p", "K_o"} /\ ~Idle) => planets' = planets]_vars

\* C9 amended: the spawn-variant command is taken in every interaction
\* state; it appends one body of its variant with radius MIN_RADIUS and no
\* velocity at the pointer and leaves the gesture as it is.
C9_SpawnFromAnyState ==
  [][/\ (pc = "events" /\ next_id <= limit) => (ENABLED KeyP /\ ENABLED KeyO)
     /\ (EventStep /\ event' \in {"K_p", "K_o"}) =>
          /\ UNCHANGED gesture
          /\ Len(planets') = Len(planets) + 1
          /\ SubSeq(planets', 1, Len(planets)) = planets
          /\ LET new == objects'[planets'[Len(planets')]]
             IN  /\ new.kind = IF event' = "K_p" THEN "NonCollidingPlanet"
                                                ELSE "GhostPlanet"
                 /\ new.radius = MIN_RADIUS
                 /\ new.vx = 0 /\ new.vy = 0
                 /\ \E m \in MousePositions :
                      new.x = m[1] * Scale /\ new.y = m[2] * Scale]_vars

\* a variant was spawned while the gesture was in Sizing or in Aiming
C9_Witness ==
  /\ pc = "events"
  /\ event \in {"K_p", "K_o"}
  /\ ~Idle
  /\ planets # <<>>
  /\ objects[planets[Len(planets)]].kind # "Planet"

====
